---- MODULE Spec2Model ----
(***************************************************************************)
(* The Zomato dashboard script (src/code.py) as a state machine.           *)
(*                                                                         *)
(* Streamlit runs the whole script top to bottom on the first page load    *)
(* and again on every widget interaction.  One run is the sequence of      *)
(* sections of the script: load, clean, sidebar filter, key metrics, and   *)
(* the seven charts.  An uncaught exception stops the run where it is      *)
(* raised; the page stays up and the next interaction starts a new run.    *)
(*                                                                         *)
(* A table is a sequence of rows; a row is a function from the table's     *)
(* column names to cells; a cell is <<>> (missing, pandas' NaN) or <<v>>.  *)
(* Tables live in a heap of objects so that pandas' in-place operations    *)
(* (inplace=True) and the rebinding of the name df can be told apart.      *)
(***************************************************************************)
EXTENDS Integers, Sequences, FiniteSets, TLC

VARIABLES
    cols,           \* column names of zomato.csv after line 18's normalisation
    csv,            \* the rows of zomato.csv
    cache,          \* st.cache_data's store for load_data: <<>> or <<table>>
    heap,           \* the DataFrame objects of the current run, by object id
    df,             \* the object the script's name df is bound to (0: unbound)
    widget,         \* session state of the "Select Cities" multiselect: <<>> or <<set>>
    cities,         \* line 39: the multiselect's options, sorted
    selected_cities,\* line 40: the multiselect's value
    metrics,        \* the values passed to colN.metric so far, in order
    city_count,     \* line 63
    cuisine_count,  \* line 75
    price_rating,   \* line 116
    charts,         \* the figures handed to st.plotly_chart so far
    pc,             \* the section of the script that runs next
    err,            \* <<>> or <<section, cause>> of the exception that stopped the run
    n_arg,          \* argument n of head(n) in the series-builder specification
    vals_arg        \* column handed to value_counts in the series-builder specification

vars == <<cols, csv, cache, heap, df, widget, cities, selected_cities, metrics,
          city_count, cuisine_count, price_rating, charts, pc, err, n_arg, vals_arg>>

----------------------------------------------------------------------------
(* Bounds of the model *)

MaxRows == 3
MaxVals == 6
MaxN == 3

(* Program constants *)

TopN == 10
DefaultCities == 5
RoundDigits == 2

----------------------------------------------------------------------------
(* Columns and cells *)

KEY == "restaurant_id"
CITY == "city"
CUISINES == "cuisines"
RATING == "aggregate_rating"
VOTES == "votes"
COST == "average_cost_for_two"
PRICE == "price_range"
LAT == "latitude"
LON == "longitude"

AllCols == {KEY, CITY, CUISINES, RATING, VOTES, COST, PRICE, LAT, LON}

Missing == <<>>
IsNa(cell) == cell = Missing
Cell(v) == <<v>>
Val(cell) == cell[1]

(* The city names of the model, in the order Python's sorted() gives them. *)
CityNames == <<"A", "B", "C", "D", "E", "F">>

Min(a, b) == IF a <= b THEN a ELSE b
Range(s) == {s[i] : i \in 1..Len(s)}
Column(rows, c) == [i \in 1..Len(rows) |-> rows[i][c]]

RECURSIVE SumSeq(_)
SumSeq(s) == IF s = <<>> THEN 0 ELSE Head(s) + SumSeq(Tail(s))

RECURSIVE Filter(_, _)
(* rows[mask]: the rows whose index is in keep, in their order. *)
Filter(rows, keep) ==
    IF rows = <<>> THEN <<>>
    ELSE LET rest == Filter(Tail(rows), {i - 1 : i \in keep \ {1}})
         IN IF 1 \in keep THEN <<Head(rows)>> \o rest ELSE rest

----------------------------------------------------------------------------
(* The pandas and Python operations the script calls *)

RECURSIVE DropDuplicatesFrom(_, _, _)
DropDuplicatesFrom(rows, key, seen) ==
    IF rows = <<>> THEN <<>>
    ELSE IF Head(rows)[key] \in seen
         THEN DropDuplicatesFrom(Tail(rows), key, seen)
         ELSE <<Head(rows)>> \o
              DropDuplicatesFrom(Tail(rows), key, seen \cup {Head(rows)[key]})

RECURSIVE DropDuplicatesKeepLast(_, _)
(* keep='last' instead of the default keep='first' *)
DropDuplicatesKeepLast(rows, key) ==
    IF rows = <<>> THEN <<>>
    ELSE IF \E j \in 2..Len(rows) : rows[j][key] = Head(rows)[key]
         THEN DropDuplicatesKeepLast(Tail(rows), key)
         ELSE <<Head(rows)>> \o DropDuplicatesKeepLast(Tail(rows), key)

(* DataFrame.drop_duplicates(subset=key): keep='first'. *)
DropDuplicates(rows, key) == DropDuplicatesFrom(rows, key, {})

RECURSIVE DropNaSkipping(_, _)
(* removes rows while walking the table, so the row after a removed one is not looked at *)
DropNaSkipping(rows, subset) ==
    IF rows = <<>> THEN <<>>
    ELSE IF \E c \in subset : IsNa(Head(rows)[c])
         THEN IF Len(rows) = 1 THEN <<>>
              ELSE <<rows[2]>> \o DropNaSkipping(Tail(Tail(rows)), subset)
         ELSE <<Head(rows)>> \o DropNaSkipping(Tail(rows), subset)

RECURSIVE DropNa(_, _)
(* DataFrame.dropna(subset=subset): how='any'; an empty subset drops nothing. *)
DropNa(rows, subset) ==
    IF rows = <<>> THEN <<>>
    ELSE IF \E c \in subset : IsNa(Head(rows)[c])
         THEN DropNa(Tail(rows), subset)
         ELSE <<Head(rows)>> \o DropNa(Tail(rows), subset)

(* the mask is all True *)
IsInAll(rows, c, values) == rows

(* df[df[c].isin(values)]: the rows whose cell is one of the values. *)
IsIn(rows, c, values) ==
    Filter(rows, {i \in 1..Len(rows) : ~IsNa(rows[i][c]) /\ Val(rows[i][c]) \in values})

(* Series.dropna().unique() as a set, and sorted(...) of city names. *)
Unique(cells) == {Val(cells[i]) : i \in {j \in 1..Len(cells) : ~IsNa(cells[j])}}
SortedNames(S) == Filter(CityNames, {i \in 1..Len(CityNames) : CityNames[i] \in S})

(* list[:n] and Series.head(n) *)
HeadN(s, n) == SubSeq(s, 1, Min(n, Len(s)))

CountOf(cells, v) == Cardinality({i \in 1..Len(cells) : cells[i] = Cell(v)})

RECURSIVE CountOrders(_, _)
(* The orders a descending sort by count can give: ties in any order. *)
CountOrders(D, cells) ==
    IF D = {} THEN {<<>>}
    ELSE LET top == {v \in D : \A w \in D : CountOf(cells, w) <= CountOf(cells, v)}
         IN UNION {{<<[value |-> v, count |-> CountOf(cells, v)]>> \o s :
                        s \in CountOrders(D \ {v}, cells)} : v \in top}

RECURSIVE AnyOrders(_, _)
(* sort=False: the counts in any order *)
AnyOrders(D, cells) ==
    IF D = {} THEN {<<>>}
    ELSE UNION {{<<[value |-> v, count |-> CountOf(cells, v)]>> \o s :
                        s \in AnyOrders(D \ {v}, cells)} : v \in D}

ValueCountsUnsorted(cells) == AnyOrders(Unique(cells), cells)

(* Series.value_counts(): the results it can return (missing cells are not counted). *)
ValueCounts(cells) == CountOrders(Unique(cells), cells)

RECURSIVE GCD(_, _)
GCD(a, b) == IF b = 0 THEN a ELSE GCD(b, a % b)

(* A number p/q in lowest terms. *)
Frac(p, q) == [num |-> p \div GCD(p, q), den |-> q \div GCD(p, q)]

Present(cells) == {i \in 1..Len(cells) : ~IsNa(cells[i])}
SumCells(cells) == SumSeq([i \in 1..Len(cells) |-> IF IsNa(cells[i]) THEN 0 ELSE Val(cells[i])])

(* Series.sum(): skips missing cells; 0 for none. *)
SeriesSum(cells) == SumCells(cells)

(* Series.mean(): skips missing cells; NaN (Missing) when none is left. *)
Mean(cells) ==
    IF Present(cells) = {} THEN Missing
    ELSE Cell(Frac(SumCells(cells), Cardinality(Present(cells))))

(* round(x, digits): NaN stays NaN; the result in units of 10^-digits, half to even. *)
Round(x, digits) ==
    IF IsNa(x) THEN Missing
    ELSE LET t == (10 ^ digits) * Val(x).num
             q == Val(x).den
             k == t \div q
             r == t % q
         IN Cell(IF 2 * r < q THEN k
                 ELSE IF 2 * r > q THEN k + 1
                 ELSE IF k % 2 = 0 THEN k ELSE k + 1)

(* int(x) truncates; int(NaN) raises ValueError. *)
IntRaises(x) == IsNa(x)
IntOf(x) == Val(x).num \div Val(x).den

RECURSIVE SortedInts(_)
SortedInts(S) ==
    IF S = {} THEN <<>>
    ELSE LET m == CHOOSE x \in S : \A y \in S : x <= y
         IN <<m>> \o SortedInts(S \ {m})

RECURSIVE FirstSeen(_, _)
(* the distinct present values of a column in the order they first occur *)
FirstSeen(cells, seen) ==
    IF cells = <<>> THEN <<>>
    ELSE IF IsNa(Head(cells)) \/ Val(Head(cells)) \in seen
         THEN FirstSeen(Tail(cells), seen)
         ELSE <<Val(Head(cells))>> \o FirstSeen(Tail(cells), seen \cup {Val(Head(cells))})

(* sort=False *)
GroupKeysUnsorted(cells) == FirstSeen(cells, {})

(* groupby(by) with the default sort=True, dropna=True: the group keys, ascending. *)
GroupKeys(cells) == SortedInts(Unique(cells))

(* df.groupby(by)[value].mean().reset_index() *)
GroupByMean(rows, by, value) ==
    LET keys == GroupKeys(Column(rows, by))
    IN [k \in 1..Len(keys) |->
           [key |-> keys[k],
            mean |-> Mean(Column(Filter(rows, {i \in 1..Len(rows) : rows[i][by] = Cell(keys[k])}),
                                 value))]]

----------------------------------------------------------------------------
(* The sections of the script *)

T == heap[df]
HasCol(c) == c \in cols

Goto(next) == pc' = next /\ err' = err
Raise(section, cause) == pc' = "error" /\ err' = <<section, cause>>

(* Lines 15-21.  st.cache_data keeps a serialised copy of what load_data returned *)
(* and hands every caller an object of its own.                                   *)
LoadData ==
    /\ pc = "load"
    /\ IF cache = <<>>
       THEN cache' = <<csv>> /\ heap' = <<csv>>
       ELSE cache' = cache /\ heap' = <<cache[1]>>
    /\ df' = 1
    /\ Goto("clean")
    /\ UNCHANGED <<cols, csv, widget, cities, selected_cities, metrics, city_count,
                   cuisine_count, price_rating, charts, n_arg, vals_arg>>

DropCols == {c \in {CITY, CUISINES, RATING} : HasCol(c)}

(* Lines 27-31 as a function of the table: drop_duplicates, then dropna. *)
Clean(rows) ==
    DropNa(IF HasCol(KEY) THEN DropDuplicates(rows, KEY) ELSE rows, DropCols)

(* Lines 27-31 on the heap: both calls pass inplace=True, so the object df names changes. *)
CleanInPlace(h, ref) == [h EXCEPT ![ref] = Clean(h[ref])]

DataCleaning ==
    /\ pc = "clean"
    /\ heap' = CleanInPlace(heap, df)
    /\ df' = df
    /\ Goto("filter")
    /\ UNCHANGED <<cols, csv, cache, widget, cities, selected_cities, metrics,
                   city_count, cuisine_count, price_rating, charts, n_arg, vals_arg>>

(* a fixed list of names instead of the table's own *)
DefaultFixed(options) == Range(HeadN(CityNames, DefaultCities))

(* Line 41: default=cities[:5] *)
DefaultSelection(options) == Range(HeadN(options, DefaultCities))

(* line 44 without the test of line 43 *)
FilterAlways(h, ref, selection) == Append(h, IsIn(h[ref], CITY, selection))

(* the filter written back into the object df names *)
FilterInPlace(h, ref, selection) == [h EXCEPT ![ref] = IsIn(h[ref], CITY, selection)]

(* Line 44 on the heap: df[mask] is a new object; the one df named before is untouched. *)
FilterNewTable(h, ref, selection) == Append(h, IsIn(h[ref], CITY, selection))

(* Lines 43-44: the heap after them; no new table for an empty selection. *)
FilterByCities(h, ref, selection) ==
    IF selection # {} THEN FilterNewTable(h, ref, selection) ELSE h

(* Lines 38-44.  The multiselect returns its default the first time it is drawn and *)
(* the user's selection afterwards; line 44 binds df to a new table.                *)
SidebarFilters ==
    /\ pc = "filter"
    /\ IF HasCol(CITY)
       THEN LET options == SortedNames(Unique(Column(T, CITY)))
                chosen == IF widget = <<>> THEN DefaultSelection(options) ELSE widget[1]
            IN /\ cities' = options
               /\ selected_cities' = chosen
               /\ widget' = <<chosen>>
               /\ heap' = FilterByCities(heap, df, chosen)
               /\ df' = Len(heap')
       ELSE UNCHANGED <<cities, selected_cities, widget, heap, df>>
    /\ Goto("metrics")
    /\ UNCHANGED <<cols, csv, cache, metrics, city_count, cuisine_count, price_rating,
                   charts, n_arg, vals_arg>>

(* Lines 52-55: the four metrics are drawn one after another, so the ones before an *)
(* exception are already on the page.                                               *)
KeyMetrics ==
    /\ pc = "metrics"
    /\ LET total == Len(T)
       IN IF ~HasCol(RATING)
          THEN metrics' = <<total>> /\ Raise("metrics", "absent_column")
          ELSE LET rating == Round(Mean(Column(T, RATING)), RoundDigits)
                   votes == IF HasCol(VOTES) THEN SeriesSum(Column(T, VOTES)) ELSE 0
               IN IF HasCol(COST) /\ IntRaises(Mean(Column(T, COST)))
                  THEN metrics' = <<total, rating, votes>> /\ Raise("metrics", "nan_to_int")
                  ELSE /\ metrics' = <<total, rating, votes,
                                       IF HasCol(COST) THEN IntOf(Mean(Column(T, COST))) ELSE 0>>
                       /\ Goto("fig1")
    /\ UNCHANGED <<cols, csv, cache, heap, df, widget, cities, selected_cities,
                   city_count, cuisine_count, price_rating, charts, n_arg, vals_arg>>

(* value_counts().head(n) *)
TopNFrequency(cells, n) == {HeadN(s, n) : s \in ValueCounts(cells)}

(* Lines 62-69 *)
TopCities ==
    /\ pc = "fig1"
    /\ IF HasCol(CITY)
       THEN /\ city_count' \in TopNFrequency(Column(T, CITY), TopN)
            /\ charts' = charts \cup {"fig1"}
       ELSE UNCHANGED <<city_count, charts>>
    /\ Goto("fig2")
    /\ UNCHANGED <<cols, csv, cache, heap, df, widget, cities, selected_cities, metrics,
                   cuisine_count, price_rating, n_arg, vals_arg>>

(* Lines 74-81 *)
TopCuisines ==
    /\ pc = "fig2"
    /\ IF HasCol(CUISINES)
       THEN /\ cuisine_count' \in TopNFrequency(Column(T, CUISINES), TopN)
            /\ charts' = charts \cup {"fig2"}
       ELSE UNCHANGED <<cuisine_count, charts>>
    /\ Goto("fig3")
    /\ UNCHANGED <<cols, csv, cache, heap, df, widget, cities, selected_cities, metrics,
                   city_count, price_rating, n_arg, vals_arg>>

(* plotly express raises ValueError for an argument that names no column of the frame. *)
PxRaises(columns) == ~(columns \subseteq cols)

(* Lines 86-88: no test of the column before the call. *)
RatingDistribution ==
    /\ pc = "fig3"
    /\ IF PxRaises({RATING})
       THEN Raise("fig3", "absent_column") /\ UNCHANGED charts
       ELSE charts' = charts \cup {"fig3"} /\ Goto("fig4")
    /\ UNCHANGED <<cols, csv, cache, heap, df, widget, cities, selected_cities, metrics,
                   city_count, cuisine_count, price_rating, n_arg, vals_arg>>

(* Lines 93-100: color and size are tested, hover_data=['cuisines'] is not. *)
RatingVsCost ==
    /\ pc = "fig4"
    /\ IF {COST, RATING} \subseteq cols
       THEN IF PxRaises({COST, RATING, CUISINES})
            THEN Raise("fig4", "absent_column") /\ UNCHANGED charts
            ELSE charts' = charts \cup {"fig4"} /\ Goto("fig5")
       ELSE Goto("fig5") /\ UNCHANGED charts
    /\ UNCHANGED <<cols, csv, cache, heap, df, widget, cities, selected_cities, metrics,
                   city_count, cuisine_count, price_rating, n_arg, vals_arg>>

(* Lines 105-110: y='aggregate_rating' is not tested. *)
VotesVsRating ==
    /\ pc = "fig5"
    /\ IF HasCol(VOTES)
       THEN IF PxRaises({VOTES, RATING})
            THEN Raise("fig5", "absent_column") /\ UNCHANGED charts
            ELSE charts' = charts \cup {"fig5"} /\ Goto("fig6")
       ELSE Goto("fig6") /\ UNCHANGED charts
    /\ UNCHANGED <<cols, csv, cache, heap, df, widget, cities, selected_cities, metrics,
                   city_count, cuisine_count, price_rating, n_arg, vals_arg>>

(* Lines 115-122: df.groupby(...)['aggregate_rating'] raises KeyError without the column. *)
PriceRangeVsRating ==
    /\ pc = "fig6"
    /\ IF HasCol(PRICE)
       THEN IF ~HasCol(RATING)
            THEN Raise("fig6", "absent_column") /\ UNCHANGED <<price_rating, charts>>
            ELSE /\ price_rating' = GroupByMean(T, PRICE, RATING)
                 /\ charts' = charts \cup {"fig6"}
                 /\ Goto("fig7")
       ELSE Goto("fig7") /\ UNCHANGED <<price_rating, charts>>
    /\ UNCHANGED <<cols, csv, cache, heap, df, widget, cities, selected_cities, metrics,
                   city_count, cuisine_count, n_arg, vals_arg>>

(* Lines 127-137: hover_data and color name three columns that are not tested. *)
RestaurantMap ==
    /\ pc = "fig7"
    /\ IF {LAT, LON} \subseteq cols
       THEN IF PxRaises({LAT, LON, CITY, CUISINES, RATING})
            THEN Raise("fig7", "absent_column") /\ UNCHANGED charts
            ELSE charts' = charts \cup {"fig7"} /\ Goto("done")
       ELSE Goto("done") /\ UNCHANGED charts
    /\ UNCHANGED <<cols, csv, cache, heap, df, widget, cities, selected_cities, metrics,
                   city_count, cuisine_count, price_rating, n_arg, vals_arg>>

(* A widget interaction: Streamlit runs the script again from the top.  The cache and *)
(* the widget's session state outlive the run; everything else is rebuilt.           *)
Rerun ==
    /\ pc \in {"done", "error"}
    /\ \E S \in SUBSET Range(cities) :
           widget' = IF widget = <<>> THEN <<>> ELSE <<S>>
    /\ heap' = <<>>
    /\ df' = 0
    /\ cities' = <<>>
    /\ selected_cities' = {}
    /\ metrics' = <<>>
    /\ city_count' = <<>>
    /\ cuisine_count' = <<>>
    /\ price_rating' = <<>>
    /\ charts' = {}
    /\ pc' = "load"
    /\ err' = <<>>
    /\ UNCHANGED <<cols, csv, cache, n_arg, vals_arg>>

----------------------------------------------------------------------------
(* The files the model reads.  Every column of a family takes every value of its   *)
(* domain in every row; the presence family gives every set of columns, with rows  *)
(* that miss nothing; the roster has one restaurant per city, last city first.     *)

RECURSIVE RowsOver(_, _)
RowsOver(C, dom) ==
    IF C = {} THEN {<<>>}
    ELSE LET c == CHOOSE x \in C : TRUE
         IN {(c :> v) @@ r : v \in dom[c], r \in RowsOver(C \ {c}, dom)}

TablesOver(C, dom) == UNION {[1..n -> RowsOver(C, dom)] : n \in 0..MaxRows}

DefaultRow(C, i) ==
    [c \in C |-> IF c = KEY THEN Cell(i)
                 ELSE IF c = CITY THEN Cell("A")
                 ELSE IF c = CUISINES THEN Cell("X")
                 ELSE Cell(3)]

CleanDom ==
    (KEY :> {Cell(1), Cell(2)}) @@ (CITY :> {Cell("A"), Cell("B"), Missing}) @@
    (RATING :> {Cell(3), Missing})

CuisineDom ==
    (CUISINES :> {Cell("X"), Cell("Y"), Missing}) @@ (RATING :> {Cell(3)})

PriceDom ==
    (RATING :> {Cell(3), Cell(4)}) @@ (PRICE :> {Cell(1), Cell(2), Missing})

CostDom ==
    (RATING :> {Cell(3), Cell(4)}) @@ (COST :> {Cell(1), Cell(2), Missing})

PresenceFamily ==
    /\ cols \in SUBSET AllCols \ {{}}
    /\ \E n \in 0..MaxRows : csv = [i \in 1..n |-> DefaultRow(cols, i)]

CleanFamily ==
    /\ cols \in SUBSET {KEY, CITY, RATING} \ {{}}
    /\ csv \in TablesOver(cols, CleanDom)

CuisineFamily ==
    /\ cols = {CUISINES, RATING}
    /\ csv \in TablesOver(cols, CuisineDom)

PriceFamily ==
    /\ cols = {RATING, PRICE}
    /\ csv \in TablesOver(cols, PriceDom)

CostFamily ==
    /\ cols = {RATING, COST}
    /\ csv \in TablesOver(cols, CostDom)

RosterFamily ==
    /\ cols = {CITY, RATING}
    /\ \E k \in 0..Len(CityNames) :
           csv = [i \in 1..k |-> (CITY :> Cell(CityNames[k + 1 - i])) @@ (RATING :> Cell(3))]

Blank ==
    /\ cache = <<>>
    /\ heap = <<>>
    /\ df = 0
    /\ widget = <<>>
    /\ cities = <<>>
    /\ selected_cities = {}
    /\ metrics = <<>>
    /\ city_count = <<>>
    /\ cuisine_count = <<>>
    /\ price_rating = <<>>
    /\ charts = {}
    /\ err = <<>>

Init ==
    /\ PresenceFamily \/ CleanFamily \/ CuisineFamily \/ PriceFamily \/ CostFamily \/ RosterFamily
    /\ Blank
    /\ pc = "load"
    /\ n_arg = 0
    /\ vals_arg = <<>>

Next ==
    \/ LoadData
    \/ DataCleaning
    \/ SidebarFilters
    \/ KeyMetrics
    \/ TopCities
    \/ TopCuisines
    \/ RatingDistribution
    \/ RatingVsCost
    \/ VotesVsRating
    \/ PriceRangeVsRating
    \/ RestaurantMap
    \/ Rerun

Spec == Init /\ [][Next]_vars

----------------------------------------------------------------------------
(* The frequency series on its own: value_counts().head(n) of one column, for the  *)
(* dashboard's n and for small n.                                                  *)

SeriesValues == {Cell("A"), Cell("B"), Cell("C")}

InitTopN ==
    /\ cols = {CITY}
    /\ csv = <<>>
    /\ Blank
    /\ pc = "series"
    /\ n_arg \in 0..MaxN \cup {TopN}
    /\ vals_arg \in UNION {[1..k -> SeriesValues] : k \in 0..MaxVals}

SeriesBuilder ==
    /\ pc = "series"
    /\ city_count' \in TopNFrequency(vals_arg, n_arg)
    /\ pc' = "done"
    /\ UNCHANGED <<cols, csv, cache, heap, df, widget, cities, selected_cities, metrics,
                   cuisine_count, price_rating, charts, err, n_arg, vals_arg>>

NextTopN == SeriesBuilder

SpecTopN == InitTopN /\ [][NextTopN]_vars

----------------------------------------------------------------------------
(* Properties *)

Raw == cache[1]                \* the table load_data read
Cleaned == heap[1]             \* the object load_data returned, after lines 27-31
Required == {CITY, CUISINES, RATING}

AfterLoad == pc \notin {"load"}
AfterClean == pc \notin {"load", "clean"}
AfterFilter == pc \notin {"load", "clean", "filter"}
AfterMetrics == pc \notin {"load", "clean", "filter", "metrics"}

(* the k-th smallest member of a set of indices *)
Kth(K, k) == CHOOSE i \in K : Cardinality({j \in K : j <= i}) = k

(* out is exactly the rows of inp at the indices K, in their order *)
IsSelection(out, inp, K) ==
    /\ Len(out) = Cardinality(K)
    /\ \A k \in 1..Len(out) : out[k] = inp[Kth(K, k)]

Complete(row) == \A c \in Required \cap cols : row[c] # Missing
FirstOfKey(rows, i) == \A j \in 1..(i - 1) : rows[j][KEY] # rows[i][KEY]

(* C1: whatever columns are absent, no section of the script raises because of an *)
(* absent column.                                                                 *)
C1_AbsentColumnNeverRaises ==
    pc = "error" => err[2] # "absent_column"

AllMissing(rows, c) == \A i \in 1..Len(rows) : IsNa(rows[i][c])

(* C2: with the rating column present, metrics over a table with no rows, or whose *)
(* rating or cost column holds only missing values, are all drawn without an       *)
(* exception: total 0 and a NaN average rating for the empty table.                *)
C2_DegenerateMetricsDoNotRaise ==
    (/\ AfterMetrics
     /\ HasCol(RATING)
     /\ \/ Len(T) = 0
        \/ AllMissing(T, RATING)
        \/ HasCol(COST) /\ AllMissing(T, COST))
    => /\ pc = "error" => err[1] # "metrics"
       /\ Len(metrics) = 4
       /\ Len(T) = 0 => metrics[1] = 0 /\ IsNa(metrics[2])

C4_CleanKeepsFirstCompleteRows ==
    AfterClean =>
        /\ IsSelection(Cleaned, Raw,
                       {i \in 1..Len(Raw) :
                            (HasCol(KEY) => FirstOfKey(Raw, i)) /\ Complete(Raw[i])})
        /\ HasCol(KEY) =>
               \A i \in 1..Len(Raw) :
                   FirstOfKey(Raw, i) =>
                       ((\E k \in 1..Len(Cleaned) : Cleaned[k][KEY] = Raw[i][KEY])
                            <=> Complete(Raw[i]))
        /\ Len(Cleaned) <= Len(Raw)

C4_Witness ==
    /\ pc = "filter"
    /\ HasCol(KEY)
    /\ Len(Raw) = 3
    /\ Raw[1][KEY] = Raw[2][KEY]
    /\ ~Complete(Raw[1])
    /\ Complete(Raw[2])
    /\ Complete(Raw[3])
    /\ Len(Cleaned) = 1

(* C5: cleaning a cleaned table changes nothing. *)
C5_CleanIdempotent ==
    AfterClean => Clean(Cleaned) = Cleaned

C5_Witness ==
    /\ pc = "filter"
    /\ Len(Raw) = 3
    /\ Len(Cleaned) = 1
    /\ ~Complete(Raw[1])
    /\ ~Complete(Raw[2])

(* C6: with no city selected, or no city column, the table the metrics and charts  *)
(* read is the cleaned table, row for row.                                         *)
C6_EmptySelectionKeepsTable ==
    (AfterFilter /\ (~HasCol(CITY) \/ selected_cities = {})) => T = Cleaned

C6_Witness ==
    /\ pc = "metrics"
    /\ HasCol(CITY)
    /\ widget = <<{}>>
    /\ Len(cities) = 2
    /\ Len(T) = 2

(* C7: with cities selected, the table the metrics and charts read is exactly the  *)
(* rows of the cleaned table whose city is selected, in their order.               *)
C7_FilterKeepsExactlySelected ==
    (AfterFilter /\ selected_cities # {}) =>
        IsSelection(T, Cleaned,
                    {i \in 1..Len(Cleaned) :
                         \E c \in selected_cities : Cleaned[i][CITY] = <<c>>})

C7_Witness ==
    /\ pc = "metrics"
    /\ selected_cities = {"B"}
    /\ Len(Cleaned) = 3
    /\ Len(T) = 2
    /\ Cleaned[2][CITY] = <<"A">>

Occurrences(cells, v) == Cardinality({i \in 1..Len(cells) : cells[i] = <<v>>})
Named(series) == {series[k].value : k \in 1..Len(series)}

(* C8: the top-n series has at most n entries, one per distinct value, each with    *)
(* the number of rows holding the value, counts never increasing, no left-out      *)
(* value more frequent than a listed one, and counts summing to at most the number *)
(* of rows; [A,A,B,C,C,C] with n = 2 gives [(C,3),(A,2)].                          *)
C8_TopNFrequency ==
    pc = "done" =>
        /\ Len(city_count) <= n_arg
        /\ \A j, k \in 1..Len(city_count) :
               j # k => city_count[j].value # city_count[k].value
        /\ \A k \in 1..Len(city_count) :
               /\ city_count[k].count = Occurrences(vals_arg, city_count[k].value)
               /\ city_count[k].count >= 1
               /\ k > 1 => city_count[k - 1].count >= city_count[k].count
        /\ \A i \in 1..Len(vals_arg) :
               vals_arg[i][1] \notin Named(city_count) =>
                   /\ Len(city_count) = n_arg
                   /\ \A k \in 1..Len(city_count) :
                          Occurrences(vals_arg, vals_arg[i][1]) <= city_count[k].count
        /\ SumSeq([k \in 1..Len(city_count) |-> city_count[k].count]) <= Len(vals_arg)
        /\ (/\ vals_arg = <<<<"A">>, <<"A">>, <<"B">>, <<"C">>, <<"C">>, <<"C">>>>
            /\ n_arg = 2)
           => city_count = <<[value |-> "C", count |-> 3], [value |-> "A", count |-> 2]>>

C8_Witness ==
    /\ pc = "done"
    /\ vals_arg = <<<<"A">>, <<"A">>, <<"B">>, <<"C">>, <<"C">>, <<"C">>>>
    /\ n_arg = 2
    /\ city_count = <<[value |-> "C", count |-> 3], [value |-> "A", count |-> 2]>>

GroupRatings(rows, key) ==
    {i \in 1..Len(rows) : rows[i][PRICE] = <<key>> /\ ~IsNa(rows[i][RATING])}
RatingTotal(rows, I) ==
    SumSeq([i \in 1..Len(rows) |-> IF i \in I THEN rows[i][RATING][1] ELSE 0])

(* one row per distinct present price_range, each with the mean of its group's     *)
(* present ratings                                                                 *)
GroupedMeanRows ==
    /\ {price_rating[k].key : k \in 1..Len(price_rating)} =
           {T[i][PRICE][1] : i \in {j \in 1..Len(T) : ~IsNa(T[j][PRICE])}}
    /\ \A j, k \in 1..Len(price_rating) :
           j # k => price_rating[j].key # price_rating[k].key
    /\ \A k \in 1..Len(price_rating) :
           LET I == GroupRatings(T, price_rating[k].key)
           IN IF I = {} THEN IsNa(price_rating[k].mean)
              ELSE /\ ~IsNa(price_rating[k].mean)
                   /\ price_rating[k].mean[1].num * Cardinality(I) =
                          price_rating[k].mean[1].den * RatingTotal(T, I)

(* the index of the first row holding a price_range *)
FirstRow(key) == CHOOSE i \in 1..Len(T) : T[i][PRICE] = <<key>> /\
                     \A j \in 1..(i - 1) : T[j][PRICE] # <<key>>

(* C9 as stated: the grouped means, in the order the price ranges first occur. *)
C9_GroupedMeanFirstOccurrenceOrder ==
    "fig6" \in charts =>
        /\ GroupedMeanRows
        /\ \A k \in 2..Len(price_rating) :
               FirstRow(price_rating[k - 1].key) < FirstRow(price_rating[k].key)

(* C9 amended: the grouped means, in ascending order of price range. *)
C9_GroupedMeanAscendingOrder ==
    "fig6" \in charts =>
        /\ GroupedMeanRows
        /\ \A k \in 2..Len(price_rating) :
               price_rating[k - 1].key < price_rating[k].key

C9_Witness ==
    /\ "fig6" \in charts
    /\ Len(T) = 3
    /\ T[1][PRICE] = <<2>>
    /\ T[2][PRICE] = <<1>>
    /\ T[3][PRICE] = <<2>>
    /\ T[1][RATING] # T[3][RATING]
    /\ Len(price_rating) = 2
    /\ price_rating[2].mean = <<[num |-> 7, den |-> 2]>>

(* C10: the options and the selection are cities of the cleaned table; the table   *)
(* the metrics and charts read is the cleaned table with some rows left out, in    *)
(* order, and has no rows only if the cleaned table has none.                      *)
C10_SelectionFromCleanedCities ==
    AfterFilter =>
        /\ HasCol(CITY) =>
               /\ Range(cities) = {Cleaned[i][CITY][1] : i \in 1..Len(Cleaned)}
               /\ selected_cities \subseteq Range(cities)
        /\ \E K \in SUBSET (1..Len(Cleaned)) : IsSelection(T, Cleaned, K)
        /\ Len(T) = 0 => Len(Cleaned) = 0

C10_Witness ==
    /\ pc = "metrics"
    /\ Len(cities) = 6
    /\ selected_cities = {"A", "B", "C", "D", "E"}
    /\ Len(T) = 5
    /\ T[1][CITY] = <<"E">>

====
